---- MODULE Spec2Model ----
(***************************************************************************)
(* A model of the uv event-loop binding: uv/loop.py (Loop, the loop        *)
(* registry, the thread-local current loop, DefaultAllocator, uv_alloc_cb) *)
(* and the handles built on it.                                            *)
(*                                                                         *)
(* Threads execute Loop methods.  A method is one step, except where it    *)
(* has to wait for Loop._global_lock (threading.Lock, not reentrant): the  *)
(* code before the wait is one step and the critical section together with *)
(* the thread-local code after it is the next.                             *)
(***************************************************************************)
EXTENDS Integers, Sequences, FiniteSets, TLC

\* ------------------------------------------------------------ bounds
\* Threads of the process, and Loop objects they may construct.
NumThreads == 2
MaxLoops == 2
\* Loops and handles the one driving thread of SpecLoop and SpecQuery constructs.
MaxDriven == 1
MaxHandles == 2
\* Read deliveries in flight, the allocator's buffer_size (2**16 by default,
\* line 102) and the largest byte value.
MaxReads == 2
BufferSize == 2
MaxByte == 1
\* Faults an application callback may raise.
MaxFaults == 2
\* Close callbacks the application has.
MaxCallbacks == 1
\* Streams the backend may hold pending on one Pipe, and connect requests.
MaxPending == 1
MaxRequests == 1
\* The size of the first buffer of Pipe.sockname and Pipe.peername (255 in
\* pipe.py, lines 138-139 and 161-162) and the longest name of a pipe.
ProbeSize == 2
MaxName == 3

Threads == 1..NumThreads
Loops == 1..MaxLoops
Handles == 1..MaxHandles
Reads == 1..MaxReads
Bytes == 0..MaxByte
Faults == 1..MaxFaults
Callbacks == 1..MaxCallbacks

\* Python's None, and a threading.local() on which `loop` was never assigned.
None == 0
Unset == -1

\* The exit status of a process that has not ended, and the one sys.exit(1)
\* asks for (line 348).
NotExited == -1
ExitStatus == 1

Modes == {"DEFAULT", "ONCE", "NOWAIT"}

VARIABLES
    _global_lock,    \* Loop._global_lock: None when free, else the holding thread
    _thread_locals,  \* Loop._thread_locals.loop, per thread: Unset, None or a Loop
    _default,        \* Loop._default: None or a Loop
    _loops,          \* Loop._loops
    nloops,          \* number of Loop objects created so far (their identities)
    is_default,      \* the Loop objects created with default=True
    uv_loop,         \* Loop.uv_loop per Loop: TRUE a backend reference, FALSE None
    closed,          \* Loop.closed per Loop
    stop_flag,       \* the backend's uv_loop_t.stop_flag per Loop
    handles,         \* Loop.handles per Loop
    nhandles,        \* number of Handle objects created so far
    hclosing,        \* the handles whose close has begun (Handle.closing)
    hclosed,         \* the handles whose close completion has fired (Handle.closed)
    pc,              \* per thread: where it is
    cur,             \* per thread: the Loop its unfinished call works on
    caller,          \* per thread: what called the unfinished Loop.__init__
    allocator,       \* Loop.allocator of the loop the reads are on: "default" or "custom"
    buffer_in_use,   \* DefaultAllocator.buffer_in_use
    c_buffer,        \* the bytes of DefaultAllocator.c_buffer
    uv_buf,          \* per read delivery in flight: the uv_buf_t it was given
    nread,           \* per read delivery: what the backend reported (Pending before it has)
    exc,             \* per Loop: the fault in exc_type, exc_value, exc_traceback, or None
    exit_code,       \* the status the process has ended with, NotExited while it runs
    on_closed,       \* Handle.on_closed per Handle: the callback its close was given, or None
    cb_calls,        \* per Handle: the close callbacks invoked for it so far, in order
    hkind,           \* per Handle: the class it was constructed as
    pending,         \* per Pipe: the backend's count of pending streams
    requests,        \* per Handle: the connect requests held in its `requests` set
    nrequests,       \* number of connect requests constructed so far
    inflight,        \* the connect requests the backend has accepted and not yet completed
    completed,       \* the connect requests whose completion callback has been delivered
    last             \* what the last step did: operation, thread, loop, outcome

loopVars == <<_global_lock, _thread_locals, _default, _loops, nloops, is_default,
              uv_loop, closed, stop_flag, pc, cur, caller>>
handleVars == <<handles, nhandles, hclosing, hclosed>>
allocVars == <<allocator, buffer_in_use, c_buffer, uv_buf, nread>>
closeVars == <<on_closed, cb_calls>>
streamVars == <<hkind, pending>>
requestVars == <<requests, nrequests, inflight, completed>>
vars == <<loopVars, handleVars, allocVars, exc, exit_code, closeVars, streamVars, requestVars, last>>

\* What a step leaves for the observer: the operation, the exception that left
\* it ("none" when it returned, "-" when it has not returned yet), the kind of
\* value returned and the backend functions it called, in order.
Did(op, raised, ret, calls) ==
    [op |-> op, raised |-> raised, ret |-> ret, calls |-> calls]

\* The Loop objects whose constructor has returned.
Built == {l \in 1..nloops : \A t \in Threads : ~(pc[t] = "init_lock" /\ cur[t] = l)}

\* uv_buf_t values: not filled in yet, (NULL, 0), the allocator's c_buffer with
\* its size, and a buffer of a custom allocator.
NoBuf == [base |-> "-", len |-> 0]
NullBuf == [base |-> "NULL", len |-> 0]
RealBuf == [base |-> "c_buffer", len |-> BufferSize]
CustomBuf == [base |-> "custom", len |-> BufferSize]

\* nread of a delivery the backend has not reported a length for; <<n>> once
\* it has reported n.
Pending == <<>>

\* Everything but the allocator policy, which Loop.__init__ takes as a parameter
\* (line 180: `allocator or DefaultAllocator(buffer_size)`).
InitWith(policy) ==
    /\ allocator = policy
    /\ buffer_in_use = FALSE
    /\ c_buffer = [i \in 1..BufferSize |-> 0]
    /\ uv_buf = [r \in Reads |-> NoBuf]
    /\ nread = [r \in Reads |-> Pending]
    /\ _global_lock = None
    /\ _thread_locals = [t \in Threads |-> Unset]
    /\ _default = None
    /\ _loops = {}
    /\ nloops = 0
    /\ is_default = {}
    /\ uv_loop = [l \in Loops |-> FALSE]
    /\ closed = [l \in Loops |-> FALSE]
    /\ stop_flag = [l \in Loops |-> FALSE]
    /\ handles = [l \in Loops |-> {}]
    /\ nhandles = 0
    /\ hclosing = {}
    /\ hclosed = {}
    /\ exc = [l \in Loops |-> None]
    /\ exit_code = NotExited
    /\ on_closed = [h \in Handles |-> None]
    /\ cb_calls = [h \in Handles |-> <<>>]
    /\ hkind = [h \in Handles |-> "-"]
    /\ pending = [h \in Handles |-> 0]
    /\ requests = [h \in Handles |-> {}]
    /\ nrequests = 0
    /\ inflight = {}
    /\ completed = {}
    /\ pc = [t \in Threads |-> "idle"]
    /\ cur = [t \in Threads |-> None]
    /\ caller = [t \in Threads |-> "-"]
    /\ last = Did("init", "none", "None", <<>>)

Init == InitWith("default")

\* ------------------------------------------------------------ Loop.__init__
\* Lines 168-281: the backend loop and the fields; then the constructor needs
\* Loop._global_lock (line 282).  `who` is what called the constructor.
InitFields(t, who, default, ok) ==
    /\ nloops < MaxLoops
    /\ IF ok
       THEN /\ nloops' = nloops + 1
            /\ is_default' = IF default THEN is_default \cup {nloops + 1} ELSE is_default
            /\ uv_loop' = [uv_loop EXCEPT ![nloops + 1] = TRUE]
            /\ closed' = [closed EXCEPT ![nloops + 1] = FALSE]
            /\ pc' = [pc EXCEPT ![t] = "init_lock"]
            /\ cur' = [cur EXCEPT ![t] = nloops + 1]
            /\ caller' = [caller EXCEPT ![t] = who]
            /\ last' = Did(who, "-", "-",
                           IF default THEN <<"uv_default_loop">> ELSE <<"uv_loop_init">>)
       ELSE /\ UNCHANGED <<nloops, is_default, uv_loop, closed, pc, cur, caller>>
            /\ last' = Did(who, IF default THEN "RuntimeError" ELSE "UVError", "-",
                           IF default THEN <<"uv_default_loop">> ELSE <<"uv_loop_init">>)

\* Loop(): the constructor called by the application.
NewLoop(t, ok) ==
    /\ pc[t] = "idle"
    /\ InitFields(t, "Loop", FALSE, ok)
    /\ UNCHANGED <<_global_lock, _thread_locals, _default, _loops, stop_flag, handleVars>>
    /\ UNCHANGED <<allocVars, exc, exit_code, closeVars, streamVars, requestVars>>

\* Lines 282-283: `with Loop._global_lock: Loop._loops.add(self)`, then
\* make_current(); and, back in get_default, line 145-146: the assignment of
\* Loop._default and the release of the lock get_default holds.
InitRegister(t) ==
    /\ pc[t] = "init_lock"
    /\ _global_lock = None
    /\ _loops' = _loops \cup {cur[t]}
    /\ _thread_locals' = [_thread_locals EXCEPT ![t] = cur[t]]
    /\ _default' = IF caller[t] = "get_default" THEN cur[t] ELSE _default
    /\ _global_lock' = None
    /\ pc' = [pc EXCEPT ![t] = "idle"]
    /\ cur' = [cur EXCEPT ![t] = None]
    /\ caller' = [caller EXCEPT ![t] = "-"]
    /\ last' = Did(caller[t], "none", "loop", last.calls)
    /\ UNCHANGED <<nloops, is_default, uv_loop, closed, stop_flag, handleVars>>
    /\ UNCHANGED <<allocVars, exc, exit_code, closeVars, streamVars, requestVars>>

\* ------------------------------------------------------------ class methods
\* Loop.get_default, lines 143-146.  The whole body runs holding
\* Loop._global_lock; when there is no default loop and one is asked for, the
\* constructor runs inside the lock.  uv_default_loop() may fail (ok = FALSE):
\* the RuntimeError leaves the `with` block, which releases the lock.
get_default(t, instantiate, ok) ==
    /\ pc[t] = "idle"
    /\ _global_lock = None
    /\ IF _default = None /\ instantiate
       THEN /\ InitFields(t, "get_default", TRUE, ok)
            /\ _global_lock' = IF ok THEN t ELSE None
       ELSE /\ last' = Did("get_default", "none",
                           IF _default = None THEN "None" ELSE "loop", <<>>)
            /\ UNCHANGED <<_global_lock, nloops, is_default, uv_loop, closed, pc, cur, caller>>
    /\ UNCHANGED <<_thread_locals, _default, _loops, stop_flag, handleVars>>
    /\ UNCHANGED <<allocVars, exc, exit_code, closeVars, streamVars, requestVars>>

\* getattr(cls._thread_locals, 'loop', None), line 156.
CurrentOf(t) == IF _thread_locals[t] = Unset THEN None ELSE _thread_locals[t]

\* Loop.get_current, lines 156-158.
get_current(t, instantiate, ok) ==
    /\ pc[t] = "idle"
    /\ IF CurrentOf(t) = None /\ instantiate
       THEN InitFields(t, "get_current", FALSE, ok)
       ELSE /\ last' = Did("get_current", "none",
                           IF CurrentOf(t) = None THEN "None" ELSE "loop", <<>>)
            /\ UNCHANGED <<nloops, is_default, uv_loop, closed, pc, cur, caller>>
    /\ UNCHANGED <<_global_lock, _thread_locals, _default, _loops, stop_flag, handleVars>>
    /\ UNCHANGED <<allocVars, exc, exit_code, closeVars, streamVars, requestVars>>

\* Loop.get_loops, line 166: a snapshot of the registry, taken under the lock.
get_loops(t) ==
    /\ pc[t] = "idle"
    /\ _global_lock = None
    /\ last' = Did("get_loops", "none", "frozenset", <<>>)
    /\ UNCHANGED <<loopVars, handleVars>>
    /\ UNCHANGED <<allocVars, exc, exit_code, closeVars, streamVars, requestVars>>

\* ------------------------------------------------------------ Loop methods
\* Loop.make_current, line 300.
make_current(t, l) ==
    /\ pc[t] = "idle"
    /\ l \in Built
    /\ _thread_locals' = [_thread_locals EXCEPT ![t] = l]
    /\ last' = Did("make_current", "none", "None", <<>>)
    /\ UNCHANGED <<_global_lock, _default, _loops, nloops, is_default, uv_loop, closed,
                   stop_flag, pc, cur, caller, handleVars>>
    /\ UNCHANGED <<allocVars, exc, exit_code, closeVars, streamVars, requestVars>>

\* The backend's uv_run as called at line 318.  With stop_flag set it runs no
\* iteration; otherwise an iteration completes the close of every closing
\* handle (their close callbacks take them out of Loop.handles).  It clears
\* stop_flag before it returns.  The dispatch of other callbacks is left out:
\* a DEFAULT run that returns with handles left is one a callback stopped.
ClosingOn(l) == handles[l] \cap hclosing

HandlesAfterRun(l) == IF stop_flag[l] THEN handles[l] ELSE handles[l] \ ClosingOn(l)

\* The close completion of a handle (uv_close_cb in uv/handle.py) takes it out
\* of Loop.handles, marks it closed and calls its on_closed, if it has one.
\* The close callbacks invoked so far once the completions of `done` have fired.
CallbacksAfter(done) ==
    [h \in Handles |-> IF h \in done /\ on_closed[h] # None
                       THEN Append(cb_calls[h], on_closed[h])
                       ELSE cb_calls[h]]

\* Loop.run with make_current() moved before the test of Loop.closed.
run_current_first(t, l, mode) ==
    /\ pc[t] = "idle"
    /\ l \in Built
    /\ mode \in Modes
    /\ _thread_locals' = [_thread_locals EXCEPT ![t] = l]
    /\ IF closed[l]
       THEN /\ last' = Did("run", "ClosedLoopError", "-", <<>>)
            /\ UNCHANGED <<stop_flag, handles, hclosed, cb_calls>>
       ELSE /\ handles' = [handles EXCEPT ![l] = HandlesAfterRun(l)]
            /\ hclosed' = hclosed \cup (handles[l] \ HandlesAfterRun(l))
            /\ cb_calls' = CallbacksAfter(handles[l] \ HandlesAfterRun(l))
            /\ stop_flag' = [stop_flag EXCEPT ![l] = FALSE]
            /\ last' = Did("run", "none",
                           IF HandlesAfterRun(l) # {} THEN "True" ELSE "False", <<"uv_run">>)
    /\ UNCHANGED <<_global_lock, _default, _loops, nloops, is_default, uv_loop, closed,
                   pc, cur, caller, nhandles, hclosing>>
    /\ UNCHANGED <<allocVars, exc, exit_code, on_closed, streamVars, requestVars>>

\* Loop.run, lines 316-319.
run(t, l, mode) ==
    /\ pc[t] = "idle"
    /\ l \in Built
    /\ mode \in Modes
    /\ IF closed[l]
       THEN /\ last' = Did("run", "ClosedLoopError", "-", <<>>)
            /\ UNCHANGED <<_thread_locals, stop_flag, handles, hclosed, cb_calls>>
       ELSE /\ _thread_locals' = [_thread_locals EXCEPT ![t] = l]
            /\ handles' = [handles EXCEPT ![l] = HandlesAfterRun(l)]
            /\ hclosed' = hclosed \cup (handles[l] \ HandlesAfterRun(l))
            /\ cb_calls' = CallbacksAfter(handles[l] \ HandlesAfterRun(l))
            /\ stop_flag' = [stop_flag EXCEPT ![l] = FALSE]
            /\ last' = Did("run", "none",
                           IF HandlesAfterRun(l) # {} THEN "True" ELSE "False", <<"uv_run">>)
    /\ UNCHANGED <<_global_lock, _default, _loops, nloops, is_default, uv_loop, closed,
                   pc, cur, caller, nhandles, hclosing>>
    /\ UNCHANGED <<allocVars, exc, exit_code, on_closed, streamVars, requestVars>>

\* Loop.stop that flips the backend's flag instead of setting it.
stop_toggles(t, l) ==
    /\ pc[t] = "idle"
    /\ l \in Built
    /\ IF closed[l]
       THEN /\ last' = Did("stop", "none", "None", <<>>)
            /\ UNCHANGED stop_flag
       ELSE /\ stop_flag' = [stop_flag EXCEPT ![l] = ~stop_flag[l]]
            /\ last' = [op |-> "stop", raised |-> "none", ret |-> "None",
                        calls |-> <<"uv_stop">>, was_pending |-> stop_flag[l]]
    /\ UNCHANGED <<_global_lock, _thread_locals, _default, _loops, nloops, is_default,
                   uv_loop, closed, pc, cur, caller, handleVars>>
    /\ UNCHANGED <<allocVars, exc, exit_code, closeVars, streamVars, requestVars>>

\* Loop.stop, lines 322-323.
stop(t, l) ==
    /\ pc[t] = "idle"
    /\ l \in Built
    /\ IF closed[l]
       THEN /\ last' = Did("stop", "none", "None", <<>>)
            /\ UNCHANGED stop_flag
       ELSE /\ stop_flag' = [stop_flag EXCEPT ![l] = TRUE]
            /\ last' = [op |-> "stop", raised |-> "none", ret |-> "None",
                        calls |-> <<"uv_stop">>, was_pending |-> stop_flag[l]]
    /\ UNCHANGED <<_global_lock, _thread_locals, _default, _loops, nloops, is_default,
                   uv_loop, closed, pc, cur, caller, handleVars>>
    /\ UNCHANGED <<allocVars, exc, exit_code, closeVars, streamVars, requestVars>>

\* The backend's uv_loop_close, line 327: UV_EBUSY (negative) while a handle of
\* the loop is not closed.
uv_loop_close_fails(l) == handles[l] # {}

\* Loop.close without the test of Loop.closed at line 326.
close_unguarded(t, l) ==
    /\ pc[t] = "idle"
    /\ l \in Built
    /\ IF uv_loop_close_fails(l)
       THEN /\ last' = Did("close", "UVError", "-", <<"uv_loop_close">>)
            /\ UNCHANGED <<uv_loop, closed, pc, cur>>
       ELSE /\ uv_loop' = [uv_loop EXCEPT ![l] = FALSE]
            /\ closed' = [closed EXCEPT ![l] = TRUE]
            /\ pc' = [pc EXCEPT ![t] = "close_lock"]
            /\ cur' = [cur EXCEPT ![t] = l]
            /\ last' = Did("close", "-", "-", <<"uv_loop_close">>)
    /\ UNCHANGED <<_global_lock, _thread_locals, _default, _loops, nloops, is_default,
                   stop_flag, caller, handleVars>>
    /\ UNCHANGED <<allocVars, exc, exit_code, closeVars, streamVars, requestVars>>

\* Loop.close, lines 326-330: up to the wait for the lock of line 331.
close(t, l) ==
    /\ pc[t] = "idle"
    /\ l \in Built
    /\ IF closed[l]
       THEN /\ last' = Did("close", "none", "None", <<>>)
            /\ UNCHANGED <<uv_loop, closed, pc, cur>>
       ELSE IF uv_loop_close_fails(l)
       THEN /\ last' = Did("close", "UVError", "-", <<"uv_loop_close">>)
            /\ UNCHANGED <<uv_loop, closed, pc, cur>>
       ELSE /\ uv_loop' = [uv_loop EXCEPT ![l] = FALSE]
            /\ closed' = [closed EXCEPT ![l] = TRUE]
            /\ pc' = [pc EXCEPT ![t] = "close_lock"]
            /\ cur' = [cur EXCEPT ![t] = l]
            /\ last' = Did("close", "-", "-", <<"uv_loop_close">>)
    /\ UNCHANGED <<_global_lock, _thread_locals, _default, _loops, nloops, is_default,
                   stop_flag, caller, handleVars>>
    /\ UNCHANGED <<allocVars, exc, exit_code, closeVars, streamVars, requestVars>>

\* Loop.close, lines 331-332: `with Loop._global_lock: Loop._loops.remove(self)`
\* (set.remove raises KeyError for a missing element), then the read of
\* Loop._thread_locals.loop, which raises AttributeError on a thread where the
\* attribute was never assigned.
close_unregister(t) ==
    /\ pc[t] = "close_lock"
    /\ _global_lock = None
    /\ IF cur[t] \notin _loops
       THEN /\ last' = Did("close", "KeyError", "-", <<"uv_loop_close">>)
            /\ UNCHANGED <<_loops, _thread_locals>>
       ELSE /\ _loops' = _loops \ {cur[t]}
            /\ IF _thread_locals[t] = Unset
               THEN /\ last' = Did("close", "AttributeError", "-", <<"uv_loop_close">>)
                    /\ UNCHANGED _thread_locals
               ELSE /\ _thread_locals' = IF _thread_locals[t] = cur[t]
                                         THEN [_thread_locals EXCEPT ![t] = None]
                                         ELSE _thread_locals
                    /\ last' = Did("close", "none", "None", <<"uv_loop_close">>)
    /\ pc' = [pc EXCEPT ![t] = "idle"]
    /\ cur' = [cur EXCEPT ![t] = None]
    /\ UNCHANGED <<_global_lock, _default, nloops, is_default, uv_loop, closed, stop_flag,
                   caller, handleVars>>
    /\ UNCHANGED <<allocVars, exc, exit_code, closeVars, streamVars, requestVars>>

\* Handle.close that starts over on a handle that is closing.
StartsClosing_again(hs) == hs \ hclosed

\* Handle.close (uv/handle.py): no effect once closing has begun; otherwise
\* the handle is closing and the backend is asked to close it.  The handles of
\* `hs` that this starts to close.
StartsClosing(hs) == hs \ (hclosing \cup hclosed)

\* Handle.close(callback) on the handles `hs`: each one it starts to close
\* keeps `callback` as its on_closed.
OnClosedAfter(hs, callback) ==
    [h \in Handles |-> IF h \in StartsClosing(hs) THEN callback ELSE on_closed[h]]

\* Loop.close_all_handles calling handle.close() without the callback.
close_all_handles_no_callback(t, l, callback) ==
    /\ pc[t] = "idle"
    /\ l \in Built
    /\ callback \in {None} \cup Callbacks
    /\ hclosing' = hclosing \cup StartsClosing(handles[l])
    /\ on_closed' = OnClosedAfter(handles[l], None)
    /\ last' = Did("close_all_handles", "none", "None",
                   IF StartsClosing(handles[l]) = {} THEN <<>> ELSE <<"uv_close">>)
    /\ UNCHANGED <<loopVars, handles, nhandles, hclosed>>
    /\ UNCHANGED <<allocVars, exc, exit_code, cb_calls, streamVars, requestVars>>

\* Loop.close_all_handles, line 335: handle.close(callback) for every handle in
\* Loop.handles.  There is no test of Loop.closed.
close_all_handles(t, l, callback) ==
    /\ pc[t] = "idle"
    /\ l \in Built
    /\ callback \in {None} \cup Callbacks
    /\ hclosing' = hclosing \cup StartsClosing(handles[l])
    /\ on_closed' = OnClosedAfter(handles[l], callback)
    /\ last' = Did("close_all_handles", "none", "None",
                   IF StartsClosing(handles[l]) = {} THEN <<>> ELSE <<"uv_close">>)
    /\ UNCHANGED <<loopVars, handles, nhandles, hclosed>>
    /\ UNCHANGED <<allocVars, exc, exit_code, cb_calls, streamVars, requestVars>>

\* Loop.alive, lines 287-288.
alive(t, l) ==
    /\ pc[t] = "idle"
    /\ l \in Built
    /\ last' = IF closed[l]
               THEN Did("alive", "none", "False", <<>>)
               ELSE Did("alive", "none",
                        IF handles[l] # {} THEN "True" ELSE "False", <<"uv_loop_alive">>)
    /\ UNCHANGED <<loopVars, handleVars>>
    /\ UNCHANGED <<allocVars, exc, exit_code, closeVars, streamVars, requestVars>>

\* now, fileno, update_time and get_timeout without their test of Loop.closed.
Query_unchecked(t, l, op, libfn, ret) ==
    /\ pc[t] = "idle"
    /\ l \in Built
    /\ last' = Did(op, "none", ret, <<libfn>>)
    /\ UNCHANGED <<loopVars, handleVars>>
    /\ UNCHANGED <<allocVars, exc, exit_code, closeVars, streamVars, requestVars>>

\* The shape of now, fileno, update_time and get_timeout: ClosedLoopError on
\* a closed loop, else the value of one backend call.
Query(t, l, op, libfn, ret) ==
    /\ pc[t] = "idle"
    /\ l \in Built
    /\ last' = IF closed[l]
               THEN Did(op, "ClosedLoopError", "-", <<>>)
               ELSE Did(op, "none", ret, <<libfn>>)
    /\ UNCHANGED <<loopVars, handleVars>>
    /\ UNCHANGED <<allocVars, exc, exit_code, closeVars, streamVars, requestVars>>

\* Loop.now, lines 292-293.
now(t, l) == Query(t, l, "now", "uv_now", "int")

\* Loop.fileno, lines 296-297.
fileno(t, l) == Query(t, l, "fileno", "uv_backend_fd", "int")

\* Loop.update_time, lines 303-304.
update_time(t, l) == Query(t, l, "update_time", "uv_update_time", "None")

\* Loop.get_timeout, lines 307-308.
get_timeout(t, l) == Query(t, l, "get_timeout", "uv_backend_timeout", "int")

\* default_excepthook, lines 88-90: two prints, then loop.stop().  A print that
\* raises (fails = TRUE) leaves the hook before loop.stop().
default_excepthook_stops(l, fails) == ~fails /\ ~closed[l]

\* What Loop.handle_exception passes to the excepthook, line 340: the Loop and
\* the fault it has just stored in exc_type, exc_value, exc_traceback.
excepthook_args(l, stored) == <<l, stored>>

\* Loop.handle_exception with the excepthook given what the Loop held before
\* line 338 stored the new fault.
handle_exception_stale(t, l, fault, hook, fails, diag_fails) ==
    /\ pc[t] = "idle"
    /\ l \in Built
    /\ fault \in Faults
    /\ diag_fails => fails
    /\ exc' = [exc EXCEPT ![l] = fault]
    /\ stop_flag' = IF hook = "default" /\ default_excepthook_stops(l, fails)
                    THEN [stop_flag EXCEPT ![l] = TRUE]
                    ELSE stop_flag
    /\ last' = [op |-> "handle_exception",
                raised |-> IF fails THEN "SystemExit" ELSE "none",
                ret |-> IF fails THEN "-" ELSE "None",
                calls |-> IF hook = "default" /\ default_excepthook_stops(l, fails)
                          THEN <<"uv_stop">> ELSE <<>>,
                hook |-> hook,
                hook_calls |-> <<excepthook_args(l, exc[l])>>,
                diagnostic |-> IF ~fails THEN "-" ELSE IF diag_fails THEN "failed" ELSE "printed",
                status |-> IF fails THEN ExitStatus ELSE NotExited]
    /\ UNCHANGED <<_global_lock, _thread_locals, _default, _loops, nloops, is_default,
                   uv_loop, closed, pc, cur, caller, handleVars>>
    /\ UNCHANGED <<allocVars, exit_code, closeVars, streamVars, requestVars>>

\* Loop.handle_exception, lines 338-348, called in the `except` clause of a
\* callback that raised `fault`.  `hook` is what Loop.excepthook holds at the
\* call ("default" or "custom", an application function that leaves the loop
\* alone), `fails` whether the hook raises and `diag_fails` whether the
\* diagnostic output of lines 345-346 then raises as well.  sys.exit(1) is in
\* the `finally` clause of line 347: it raises SystemExit(1) out of the method
\* whatever the output did.
handle_exception(t, l, fault, hook, fails, diag_fails) ==
    /\ pc[t] = "idle"
    /\ l \in Built
    /\ fault \in Faults
    /\ diag_fails => fails
    /\ exc' = [exc EXCEPT ![l] = fault]
    /\ stop_flag' = IF hook = "default" /\ default_excepthook_stops(l, fails)
                    THEN [stop_flag EXCEPT ![l] = TRUE]
                    ELSE stop_flag
    /\ last' = [op |-> "handle_exception",
                raised |-> IF fails THEN "SystemExit" ELSE "none",
                ret |-> IF fails THEN "-" ELSE "None",
                calls |-> IF hook = "default" /\ default_excepthook_stops(l, fails)
                          THEN <<"uv_stop">> ELSE <<>>,
                hook |-> hook,
                hook_calls |-> <<excepthook_args(l, fault)>>,
                diagnostic |-> IF ~fails THEN "-" ELSE IF diag_fails THEN "failed" ELSE "printed",
                status |-> IF fails THEN ExitStatus ELSE NotExited]
    /\ UNCHANGED <<_global_lock, _thread_locals, _default, _loops, nloops, is_default,
                   uv_loop, closed, pc, cur, caller, handleVars>>
    /\ UNCHANGED <<allocVars, exit_code, closeVars, streamVars, requestVars>>

\* The SystemExit that left handle_exception is still in flight.
Exiting == last.op = "handle_exception" /\ last.raised = "SystemExit"

\* Where the SystemExit goes is up to the frame handle_exception was called
\* in: the `except` clause of a callback the backend invoked (uv/handle.py,
\* uv/handles/stream.py), on the thread that runs the loop.  It ends the
\* process with its status when it unwinds to the top of the main thread; it
\* is discarded when it stops at the foreign frame of the backend's dispatch
\* or ends a thread that is not the main one, and the process goes on.
SystemExit_leaves(t, outcome) ==
    /\ pc[t] = "idle"
    /\ exit_code = NotExited
    /\ Exiting
    /\ outcome \in {"exits", "discarded"}
    /\ exit_code' = IF outcome = "exits" THEN last.status ELSE exit_code
    /\ last' = Did("SystemExit", "none", outcome, <<>>)
    /\ UNCHANGED <<loopVars, handleVars, allocVars, exc, closeVars, streamVars, requestVars>>

\* ------------------------------------------------------------ allocator
\* DefaultAllocator.allocate, lines 108-112: the uv_buf_t it fills in.
allocate(in_use) == IF in_use THEN NullBuf ELSE RealBuf

\* What an application's allocator does to the uv_buf_t: it fills it in or
\* not, and returns or raises.
custom_allocate(buf, fills) == IF fills THEN CustomBuf ELSE buf

\* uv_alloc_cb without its `except` clause: what the allocator raised leaves
\* the callback, and the uv_buf_t stays as the allocator left it.
uv_alloc_cb_no_except(r, suggested_size, fills, raises) ==
    /\ uv_buf[r] = NoBuf
    /\ IF allocator = "default"
       THEN /\ ~fills /\ ~raises
            /\ uv_buf' = [uv_buf EXCEPT ![r] = allocate(buffer_in_use)]
            /\ buffer_in_use' = TRUE
       ELSE /\ uv_buf' = [uv_buf EXCEPT ![r] = custom_allocate(uv_buf[r], fills)]
            /\ UNCHANGED buffer_in_use
    /\ last' = [op |-> "uv_alloc_cb", raised |-> IF raises THEN "Exception" ELSE "none",
                ret |-> "None", calls |-> <<>>,
                caught |-> FALSE, was_in_use |-> buffer_in_use]
    /\ UNCHANGED <<loopVars, handleVars, allocator, c_buffer, nread, exc>>
    /\ UNCHANGED <<exit_code, closeVars, streamVars, requestVars>>

\* uv_alloc_cb, lines 122-126, for read delivery r: the loop's allocator is
\* asked for a buffer; whatever it raises is caught and the uv_buf_t set to
\* (NULL, 0).  `fills` and `raises` are what a custom allocator does.
uv_alloc_cb(r, suggested_size, fills, raises) ==
    /\ uv_buf[r] = NoBuf
    /\ IF allocator = "default"
       THEN /\ ~fills /\ ~raises
            /\ uv_buf' = [uv_buf EXCEPT ![r] = allocate(buffer_in_use)]
            /\ buffer_in_use' = TRUE
       ELSE /\ uv_buf' = [uv_buf EXCEPT ![r] =
                             IF raises THEN NullBuf ELSE custom_allocate(uv_buf[r], fills)]
            /\ UNCHANGED buffer_in_use
    /\ last' = [op |-> "uv_alloc_cb", raised |-> "none", ret |-> "None", calls |-> <<>>,
                caught |-> raises, was_in_use |-> buffer_in_use]
    /\ UNCHANGED <<loopVars, handleVars, allocator, c_buffer, nread, exc>>
    /\ UNCHANGED <<exit_code, closeVars, streamVars, requestVars>>

\* The backend after uv_alloc_cb: with a zero-length buffer it reports
\* UV_ENOBUFS (negative); otherwise it reports end of file or an error (n <= 0)
\* or writes the n bytes `data` to the start of the buffer.
WriteTo(buf, data) == [i \in 1..BufferSize |-> IF i <= Len(data) THEN data[i] ELSE buf[i]]

backend_read(r, n, data) ==
    /\ uv_buf[r] # NoBuf
    /\ nread[r] = Pending
    /\ n \in -1..uv_buf[r].len
    /\ uv_buf[r].len = 0 => n < 0
    /\ Len(data) = IF n > 0 THEN n ELSE 0
    /\ nread' = [nread EXCEPT ![r] = <<n>>]
    /\ c_buffer' = IF uv_buf[r].base = "c_buffer" THEN WriteTo(c_buffer, data) ELSE c_buffer
    /\ last' = Did("backend_read", "none", "None", <<>>)
    /\ UNCHANGED <<loopVars, handleVars, allocator, buffer_in_use, uv_buf, exc>>
    /\ UNCHANGED <<exit_code, closeVars, streamVars, requestVars>>

\* bytes(ffi.buffer(c_base, length)), line 117: the first `length` bytes at c_base.
BufferBytes(base, length) == [i \in 1..length |-> IF base = "c_buffer" THEN c_buffer[i] ELSE 0]

\* DefaultAllocator.finalize returning the whole buffer whatever the length.
finalize_bytes_whole(base, length) == IF length > 0 THEN BufferBytes(base, BufferSize) ELSE <<>>

\* The value of DefaultAllocator.finalize, lines 116-117.
finalize_bytes(base, length) == IF length > 0 THEN BufferBytes(base, length) ELSE <<>>

\* The flag DefaultAllocator.finalize leaves, line 115.
finalize_in_use == FALSE

\* The read callback hands delivery r to the allocator's finalize, lines
\* 114-117, with the length the backend reported.
finalize(r) ==
    /\ nread[r] # Pending
    /\ buffer_in_use' = IF allocator = "default" THEN finalize_in_use ELSE buffer_in_use
    /\ last' = [op |-> "finalize", raised |-> "none", ret |-> "bytes", calls |-> <<>>,
                length |-> nread[r][1], base |-> uv_buf[r].base,
                data |-> finalize_bytes(uv_buf[r].base, nread[r][1])]
    /\ uv_buf' = [uv_buf EXCEPT ![r] = NoBuf]
    /\ nread' = [nread EXCEPT ![r] = Pending]
    /\ UNCHANGED <<loopVars, handleVars, allocator, c_buffer, exc>>
    /\ UNCHANGED <<exit_code, closeVars, streamVars, requestVars>>

\* ------------------------------------------------------------ handles
\* The classes a Handle is constructed as.
Kinds == {"Handle", "Pipe", "TCP"}

\* A Handle of class `kind` is constructed on an open Loop and registers
\* itself in Loop.handles.
Construct(t, l, kind) ==
    /\ pc[t] = "idle"
    /\ l \in Built
    /\ ~closed[l]
    /\ kind \in Kinds
    /\ nhandles < MaxHandles
    /\ nhandles' = nhandles + 1
    /\ handles' = [handles EXCEPT ![l] = @ \cup {nhandles + 1}]
    /\ hkind' = [hkind EXCEPT ![nhandles + 1] = kind]
    /\ last' = Did(kind, "none", "handle", <<"uv_handle_init">>)
    /\ UNCHANGED <<loopVars, hclosing, hclosed>>
    /\ UNCHANGED <<allocVars, exc, exit_code, closeVars, pending, requestVars>>

NewHandle(t, l) == Construct(t, l, "Handle")

\* Handle.close(callback) on one handle.
HandleClose(t, h, callback) ==
    /\ pc[t] = "idle"
    /\ h \in 1..nhandles
    /\ callback \in {None} \cup Callbacks
    /\ hclosing' = hclosing \cup StartsClosing({h})
    /\ on_closed' = OnClosedAfter({h}, callback)
    /\ last' = Did("Handle.close", "none", "None",
                   IF StartsClosing({h}) = {} THEN <<>> ELSE <<"uv_close">>)
    /\ UNCHANGED <<loopVars, handles, nhandles, hclosed>>
    /\ UNCHANGED <<allocVars, exc, exit_code, cb_calls, streamVars, requestVars>>

\* ------------------------------------------------------------ Pipe
\* Handle.closing (uv/handle.py), which the methods of Pipe test: the close of
\* the handle has begun.
Closing(h) == h \in hclosing \cup hclosed

\* The Loop a live handle is on.
LoopOf(h) == CHOOSE l \in Loops : h \in handles[l]

\* The statuses of the backend: error.StatusCodes.SUCCESS, ENOBUFS and one
\* other error.  All but SUCCESS are negative numbers.
Statuses == {"SUCCESS", "ENOBUFS", "EBADF"}

Negative(code) == code # "SUCCESS"

\* The methods of a Pipe are called on a Pipe object by a thread that is in no
\* other call.
OnPipe(t, h) == pc[t] = "idle" /\ h \in 1..nhandles /\ hkind[h] = "Pipe"

\* A method of a handle that leaves every variable but the record alone.
Records(rec) ==
    /\ last' = rec
    /\ UNCHANGED <<loopVars, handleVars, allocVars, exc, exit_code, closeVars, streamVars,
                   requestVars>>

\* open and bind: ClosedHandleError on a closing handle, else one backend call
\* whose status, unless it is SUCCESS, is raised as UVError.
Checked(t, h, op, libfn, code) ==
    /\ OnPipe(t, h)
    /\ code \in Statuses
    /\ Records(IF Closing(h)
             THEN Did(op, "ClosedHandleError", "-", <<>>)
             ELSE Did(op, IF code # "SUCCESS" THEN "UVError" ELSE "none",
                      IF code # "SUCCESS" THEN "-" ELSE "None", <<libfn>>))

\* Pipe.open, lines 68-72.
Pipe_open(t, h, code) == Checked(t, h, "open", "cross_uv_pipe_open", code)

\* Pipe.bind, lines 181-185.
Pipe_bind(t, h, code) == Checked(t, h, "bind", "uv_pipe_bind", code)

\* The value of Pipe.pending_count, lines 82-84: 0 on a closing handle, else
\* what uv_pipe_pending_count reports.
pending_count_value(h) == IF Closing(h) THEN 0 ELSE pending[h]

\* Pipe.pending_count, lines 82-84.
pending_count(t, h) ==
    /\ OnPipe(t, h)
    /\ Records([op |-> "pending_count", raised |-> "none", ret |-> "int",
              calls |-> IF Closing(h) THEN <<>> ELSE <<"uv_pipe_pending_count">>,
              value |-> pending_count_value(h)])

\* What uv_pipe_pending_type reports: the type of the first pending stream,
\* UNKNOWN when there is none.
PendingTags(h) == IF pending[h] = 0 THEN {"UNKNOWN"} ELSE {"Pipe", "TCP"}

\* Pipe.pending_type, lines 96-98.
pending_type(t, h, tag) ==
    /\ OnPipe(t, h)
    /\ tag \in PendingTags(h)
    /\ Records(IF Closing(h)
             THEN Did("pending_type", "ClosedHandleError", "-", <<>>)
             ELSE [op |-> "pending_type", raised |-> "none", ret |-> "type",
                   calls |-> <<"uv_pipe_pending_type">>, cls |-> tag])

\* Pipe.pending_accept, line 109: self.accept(cls=self.pending_type).  The
\* argument is evaluated first, so a closing handle raises ClosedHandleError
\* from pending_type.  Stream.accept (uv/handles/stream.py) constructs a
\* handle of class `tag` on the same Loop and has the backend move the first
\* pending stream into it; with none pending the backend refuses (UV_EAGAIN).
pending_accept(t, h, tag) ==
    /\ OnPipe(t, h)
    /\ tag \in PendingTags(h)
    /\ IF Closing(h)
       THEN /\ last' = Did("pending_accept", "ClosedHandleError", "-", <<>>)
            /\ UNCHANGED <<handles, nhandles, hkind, pending>>
       ELSE IF pending[h] = 0
       THEN /\ last' = Did("pending_accept", "UVError", "-", <<"uv_pipe_pending_type">>)
            /\ UNCHANGED <<handles, nhandles, hkind, pending>>
       ELSE /\ nhandles < MaxHandles
            /\ nhandles' = nhandles + 1
            /\ handles' = [handles EXCEPT ![LoopOf(h)] = @ \cup {nhandles + 1}]
            /\ hkind' = [hkind EXCEPT ![nhandles + 1] = tag]
            /\ pending' = [pending EXCEPT ![h] = @ - 1]
            /\ last' = Did("pending_accept", "none", "handle",
                           <<"uv_pipe_pending_type", "uv_handle_init", "uv_accept">>)
    /\ UNCHANGED <<loopVars, hclosing, hclosed>>
    /\ UNCHANGED <<allocVars, exc, exit_code, closeVars, requestVars>>

\* Pipe.pending_instances, line 119: the backend call, with no test of closing.
pending_instances(t, h, amount) ==
    /\ OnPipe(t, h)
    /\ Records(Did("pending_instances", "none", "None", <<"uv_pipe_pending_instances">>))

\* The names a pipe may have: byte strings, 0 being the NUL byte (a name in
\* the abstract namespace of Linux begins with it).
Names == UNION {[1..n -> Bytes] : n \in 0..MaxName}

\* What uv_pipe_getsockname / uv_pipe_getpeername may answer to a call with a
\* buffer of `cap` bytes: SUCCESS with a name that fits, written to the start
\* of the buffer, and its length in c_size; ENOBUFS with the size it needs in
\* c_size; or another error, with c_size as it was.
Replies(cap) ==
    {[code |-> "SUCCESS", size |-> Len(name), name |-> name] :
         name \in {n \in Names : Len(n) <= cap}}
    \cup {[code |-> "ENOBUFS", size |-> size, name |-> <<>>] : size \in (cap + 1)..(MaxName + 1)}
    \cup {[code |-> "EBADF", size |-> cap, name |-> <<>>]}

\* The answers to the second call, lines 142-144 and 165-167, made only after
\* ENOBUFS and with a buffer of the size the first call left in c_size;
\* without a second call the first answer is the last one.
Retry(first) == IF first.code = "ENOBUFS" THEN Replies(first.size) ELSE {first}

\* ffi.new('char[]', cap) after the backend wrote `name` to its start.
Buffer(cap, name) == [i \in 1..cap |-> IF i <= Len(name) THEN name[i] ELSE 0]

\* The first NUL among the first maxlen bytes of buf, maxlen + 1 if there is none.
FirstNul(buf, maxlen) ==
    IF \E i \in 1..maxlen : buf[i] = 0
    THEN CHOOSE i \in 1..maxlen : buf[i] = 0 /\ \A j \in 1..(i - 1) : buf[j] # 0
    ELSE maxlen + 1

\* ffi.string(c_buffer, maxlen), lines 146 and 169: the bytes before the first
\* NUL, maxlen of them at most.  The bytes are ASCII, which decode() keeps.
ffi_string(buf, maxlen) == SubSeq(buf, 1, FirstNul(buf, maxlen) - 1)

\* Pipe.sockname and Pipe.peername, lines 136-146 and 159-169: a call with a
\* buffer of ProbeSize bytes; after ENOBUFS a second call with a buffer of the
\* size c_size then holds; the status of the last call, unless it is SUCCESS,
\* raised as UVError.  `first` and `second` are the backend's answers.
getname(t, h, op, libfn, first, second) ==
    /\ OnPipe(t, h)
    /\ first \in Replies(ProbeSize)
    /\ second \in Retry(first)
    /\ Records(IF Closing(h)
             THEN Did(op, "ClosedHandleError", "-", <<>>)
             ELSE [op |-> op,
                   raised |-> IF second.code # "SUCCESS" THEN "UVError" ELSE "none",
                   ret |-> IF second.code # "SUCCESS" THEN "-" ELSE "unicode",
                   calls |-> IF first.code = "ENOBUFS" THEN <<libfn, libfn>> ELSE <<libfn>>,
                   sizes |-> IF first.code = "ENOBUFS"
                             THEN <<ProbeSize, first.size>> ELSE <<ProbeSize>>,
                   value |-> IF second.code # "SUCCESS" THEN <<>>
                             ELSE ffi_string(Buffer(IF first.code = "ENOBUFS"
                                                    THEN first.size ELSE ProbeSize,
                                                    second.name),
                                             second.size)])

\* Pipe.sockname, lines 136-146.
sockname(t, h, first, second) == getname(t, h, "sockname", "uv_pipe_getsockname", first, second)

\* Pipe.peername, lines 159-169.
peername(t, h, first, second) == getname(t, h, "peername", "uv_pipe_getpeername", first, second)

\* Pipe.connect, line 203: PipeConnectRequest(self, path, on_connect).  The
\* constructor of stream.ConnectRequest (uv/handles/stream.py) refuses a
\* closing handle before it creates anything; otherwise it calls the backend's
\* connect entry point and, unless that fails, registers the request, whose
\* completion the backend then owes.
Pipe_connect(t, h, code) ==
    /\ OnPipe(t, h)
    /\ code \in Statuses
    /\ IF Closing(h)
       THEN /\ last' = Did("Pipe.connect", "ClosedHandleError", "-", <<>>)
            /\ UNCHANGED requestVars
       ELSE IF Negative(code)
       THEN /\ last' = Did("Pipe.connect", "UVError", "-", <<"uv_pipe_connect">>)
            /\ UNCHANGED requestVars
       ELSE /\ nrequests < MaxRequests
            /\ nrequests' = nrequests + 1
            /\ requests' = [requests EXCEPT ![h] = @ \cup {nrequests + 1}]
            /\ inflight' = inflight \cup {nrequests + 1}
            /\ last' = Did("Pipe.connect", "none", "request", <<"uv_pipe_connect">>)
            /\ UNCHANGED completed
    /\ UNCHANGED <<loopVars, handleVars, allocVars, exc, exit_code, closeVars, streamVars>>

\* The backend has established a connection to a listening Pipe, or received
\* a stream for it: one more is pending.
backend_connection(h) ==
    /\ h \in 1..nhandles /\ hkind[h] = "Pipe" /\ ~Closing(h)
    /\ pending[h] < MaxPending
    /\ pending' = [pending EXCEPT ![h] = @ + 1]
    /\ last' = Did("backend_connection", "none", "None", <<>>)
    /\ UNCHANGED <<loopVars, handleVars, allocVars, exc, exit_code, closeVars, hkind,
                   requestVars>>

\* ------------------------------------------------------------ TCP
\* TCP.connect, lines 72-78.  Line 74 calls c_require, a name tcp.py neither
\* defines nor imports: NameError unless the name resolves some other way
\* (`resolves`).  Then the request is added to self.requests, the backend is
\* called, and a negative status is raised as UVError with the request still
\* in self.requests.  There is no test of closing.
TCP_connect(t, h, resolves, code) ==
    /\ pc[t] = "idle"
    /\ h \in 1..nhandles /\ hkind[h] = "TCP"
    /\ code \in Statuses
    /\ nrequests < MaxRequests
    /\ nrequests' = nrequests + 1
    /\ IF ~resolves
       THEN /\ last' = Did("TCP.connect", "NameError", "-", <<>>)
            /\ UNCHANGED <<requests, inflight>>
       ELSE /\ requests' = [requests EXCEPT ![h] = @ \cup {nrequests + 1}]
            /\ inflight' = IF Negative(code) THEN inflight ELSE inflight \cup {nrequests + 1}
            /\ last' = Did("TCP.connect", IF Negative(code) THEN "UVError" ELSE "none",
                           IF Negative(code) THEN "-" ELSE "request", <<"uv_tcp_connect">>)
    /\ UNCHANGED completed
    /\ UNCHANGED <<loopVars, handleVars, allocVars, exc, exit_code, closeVars, streamVars>>

\* The backend completes a connect request it accepted: uv_connect_cb
\* (uv/handles/stream.py) takes the request out of the `requests` set it is in
\* and delivers the completion callback.
connect_done(q) ==
    /\ q \in inflight
    /\ inflight' = inflight \ {q}
    /\ completed' = completed \cup {q}
    /\ requests' = [h \in Handles |-> requests[h] \ {q}]
    /\ last' = Did("uv_connect_cb", "none", "None", <<>>)
    /\ UNCHANGED nrequests
    /\ UNCHANGED <<loopVars, handleVars, allocVars, exc, exit_code, closeVars, streamVars>>

\* ------------------------------------------------------------ specifications
\* A thread goes on with the call it is in.
Continue(t) == InitRegister(t) \/ close_unregister(t)

\* Spec: the registry, the default loop and the threads' current loops, with
\* every thread constructing, running and closing loops in any interleaving.
Next ==
    \/ \E t \in Threads, ok \in BOOLEAN : NewLoop(t, ok)
    \/ \E t \in Threads : InitRegister(t)
    \/ \E t \in Threads, instantiate \in BOOLEAN, ok \in BOOLEAN : get_default(t, instantiate, ok)
    \/ \E t \in Threads, instantiate \in BOOLEAN, ok \in BOOLEAN : get_current(t, instantiate, ok)
    \/ \E t \in Threads : get_loops(t)
    \/ \E t \in Threads, l \in Loops : make_current(t, l)
    \/ \E t \in Threads, l \in Loops, mode \in Modes : run(t, l, mode)
    \/ \E t \in Threads, l \in Loops : close(t, l)
    \/ \E t \in Threads : close_unregister(t)

Spec == Init /\ [][Next]_vars

\* A thread inside a call keeps running: the interpreter schedules every thread.
FairSpec == Spec /\ \A t \in Threads : WF_vars(Continue(t))

\* One thread drives its loops, at most MaxDriven of them, and their handles
\* (section 5: a Loop is driven by one thread).
Main == CHOOSE t \in Threads : TRUE

NewDriven(ok) == nloops < MaxDriven /\ NewLoop(Main, ok)

\* The fault of the callbacks in the specifications that are not about faults.
AFault == CHOOSE fault \in Faults : TRUE

\* SpecLoop: the life of a Loop under the methods that act on it.
NextLoop ==
    \/ \E ok \in BOOLEAN : NewDriven(ok)
    \/ InitRegister(Main)
    \/ \E l \in Loops : make_current(Main, l)
    \/ \E l \in Loops, mode \in Modes : run(Main, l, mode)
    \/ \E l \in Loops : stop(Main, l)
    \/ \E l \in Loops : close(Main, l)
    \/ close_unregister(Main)
    \/ \E l \in Loops : close_all_handles(Main, l, None)
    \/ \E l \in Loops, hook \in {"default", "custom"}, fails \in BOOLEAN :
           handle_exception(Main, l, AFault, hook, fails, FALSE)
    \/ \E l \in Loops : NewHandle(Main, l)
    \/ \E h \in Handles : HandleClose(Main, h, None)

SpecLoop == Init /\ [][NextLoop]_vars

\* SpecQuery: the same life, with the methods that only read the Loop.
NextQuery ==
    \/ \E ok \in BOOLEAN : NewDriven(ok)
    \/ InitRegister(Main)
    \/ \E l \in Loops, mode \in Modes : run(Main, l, mode)
    \/ \E l \in Loops : stop(Main, l)
    \/ \E l \in Loops : close(Main, l)
    \/ close_unregister(Main)
    \/ \E l \in Loops : close_all_handles(Main, l, None)
    \/ \E l \in Loops : alive(Main, l)
    \/ \E l \in Loops : now(Main, l)
    \/ \E l \in Loops : fileno(Main, l)
    \/ \E l \in Loops : update_time(Main, l)
    \/ \E l \in Loops : get_timeout(Main, l)
    \/ \E l \in Loops : NewHandle(Main, l)

SpecQuery == Init /\ [][NextQuery]_vars

\* SpecExc: callbacks that raise on the loops of one thread, and what becomes
\* of the process.  Nothing runs once the process has ended, and the thread a
\* SystemExit is unwinding does nothing else first.
Dispatching == exit_code = NotExited /\ ~Exiting

NextExc ==
    \/ Dispatching /\ \E ok \in BOOLEAN : NewDriven(ok)
    \/ Dispatching /\ InitRegister(Main)
    \/ Dispatching /\ \E l \in Loops, mode \in Modes : run(Main, l, mode)
    \/ Dispatching /\ \E l \in Loops : stop(Main, l)
    \/ Dispatching /\ \E l \in Loops : close(Main, l)
    \/ Dispatching /\ close_unregister(Main)
    \/ Dispatching /\ \E l \in Loops, fault \in Faults, hook \in {"default", "custom"},
                          fails \in BOOLEAN, diag_fails \in BOOLEAN :
                           handle_exception(Main, l, fault, hook, fails, diag_fails)
    \/ \E outcome \in {"exits", "discarded"} : SystemExit_leaves(Main, outcome)

SpecExc == Init /\ [][NextExc]_vars

\* SpecHandle: the handles of the loops of one thread, closed one by one or
\* all at once, with and without a callback.
NextHandle ==
    \/ \E ok \in BOOLEAN : NewDriven(ok)
    \/ InitRegister(Main)
    \/ \E l \in Loops : NewHandle(Main, l)
    \/ \E h \in Handles, callback \in {None} \cup Callbacks : HandleClose(Main, h, callback)
    \/ \E l \in Loops, callback \in {None} \cup Callbacks : close_all_handles(Main, l, callback)
    \/ \E l \in Loops, mode \in Modes : run(Main, l, mode)
    \/ \E l \in Loops : close(Main, l)
    \/ close_unregister(Main)

SpecHandle == Init /\ [][NextHandle]_vars

\* SpecStream: the Pipe and TCP handles of the loops of one thread, the
\* streams the backend holds pending for them and their connect requests.
NextStream ==
    \/ \E ok \in BOOLEAN : NewDriven(ok)
    \/ InitRegister(Main)
    \/ \E l \in Loops, kind \in {"Pipe", "TCP"} : Construct(Main, l, kind)
    \/ \E h \in Handles : HandleClose(Main, h, None)
    \/ \E l \in Loops, mode \in Modes : run(Main, l, mode)
    \/ \E h \in Handles, code \in Statuses : Pipe_open(Main, h, code)
    \/ \E h \in Handles, code \in Statuses : Pipe_bind(Main, h, code)
    \/ \E h \in Handles, code \in Statuses : Pipe_connect(Main, h, code)
    \/ \E h \in Handles : pending_count(Main, h)
    \/ \E h \in Handles, tag \in {"UNKNOWN", "Pipe", "TCP"} : pending_type(Main, h, tag)
    \/ \E h \in Handles, tag \in {"UNKNOWN", "Pipe", "TCP"} : pending_accept(Main, h, tag)
    \/ \E h \in Handles, amount \in 1..MaxPending : pending_instances(Main, h, amount)
    \/ \E h \in Handles, first \in Replies(ProbeSize) :
           \E second \in Retry(first) : sockname(Main, h, first, second)
    \/ \E h \in Handles, first \in Replies(ProbeSize) :
           \E second \in Retry(first) : peername(Main, h, first, second)
    \/ \E h \in Handles : backend_connection(h)
    \/ \E h \in Handles, resolves \in BOOLEAN, code \in Statuses :
           TCP_connect(Main, h, resolves, code)
    \/ \E q \in 1..MaxRequests : connect_done(q)

SpecStream == Init /\ [][NextStream]_vars

\* SpecAlloc: the read deliveries of one loop and its allocator, which is the
\* default one or an application's.
Datas == UNION {[1..n -> Bytes] : n \in 0..BufferSize}

NextAlloc ==
    \/ \E r \in Reads, suggested_size \in {1, BufferSize}, fills \in BOOLEAN, raises \in BOOLEAN :
           uv_alloc_cb(r, suggested_size, fills, raises)
    \/ \E r \in Reads, n \in -1..BufferSize, data \in Datas : backend_read(r, n, data)
    \/ \E r \in Reads : finalize(r)

SpecAlloc == (\E policy \in {"default", "custom"} : InitWith(policy)) /\ [][NextAlloc]_vars

\* ------------------------------------------------------------ claims
\* What is left of a step besides the observer's record.
state == <<loopVars, handleVars, allocVars, exc, exit_code, closeVars, streamVars, requestVars>>

C2_RunOnClosedFails ==
    [][\A t \in Threads, l \in Loops, mode \in Modes :
           closed[l] /\ last'.op = "run" /\ run(t, l, mode) =>
               /\ last'.raised = "ClosedLoopError"
               /\ last'.calls = <<>>
               /\ _thread_locals' = _thread_locals
               /\ UNCHANGED state]_vars

\* C2 witness: run has raised ClosedLoopError on a closed Loop that is not the
\* calling thread's current loop.
C2_Witness ==
    /\ last.op = "run" /\ last.raised = "ClosedLoopError"
    /\ \E l \in Built : closed[l] /\ _thread_locals[Main] # l

\* The methods of a Loop that C3 names, as steps of thread t on Loop l.
Raising(t, l) ==
    \/ \E mode \in Modes : run(t, l, mode)
    \/ now(t, l) \/ fileno(t, l) \/ update_time(t, l) \/ get_timeout(t, l)

Silent(t, l) == stop(t, l) \/ close(t, l) \/ close_all_handles(t, l, None) \/ alive(t, l)

C5_CloseContract ==
    [][\A t \in Threads :
           /\ \A l \in Loops :
                  /\ close(t, l) /\ ~closed[l] /\ handles[l] # {} =>
                         last'.raised = "UVError" /\ UNCHANGED state
                  /\ close(t, l) /\ ~closed[l] /\ handles[l] = {} =>
                         ~uv_loop'[l] /\ closed'[l]
           /\ close_unregister(t) =>
                  last'.raised = "none" /\ cur[t] \notin _loops']_vars

\* C6: get_default creates the default Loop at most once, and a call with
\* instantiate=True that finds none returns the Loop it creates, which is then
\* Loop._default.
C6_DefaultCreatedOnce ==
    /\ [](Cardinality(is_default) <= 1)
    /\ \A t \in Threads :
           (pc[t] = "init_lock" /\ caller[t] = "get_default")
               ~> (pc[t] = "idle" /\ _default \in is_default)

\* C7: no Loop is the current loop of more than one thread.
C7_CurrentOfOneThread ==
    \A l \in Loops : Cardinality({t \in Threads : _thread_locals[t] = l}) <= 1

\* The read deliveries that hold the allocator's real buffer.
Holders == {r \in Reads : uv_buf[r] = RealBuf}

\* C8: under the default allocator at most one read delivery holds the real
\* buffer at a time.
C8_OneHolder == allocator = "default" => Cardinality(Holders) <= 1

\* C9: uv_alloc_cb never lets a fault out; under the default allocator with the
\* buffer in use, and under any allocator that raises, the uv_buf_t it leaves
\* is (NULL, 0).
C9_AllocationNeverFails ==
    [][\A r \in Reads, size \in {1, BufferSize}, fills \in BOOLEAN, raises \in BOOLEAN :
           uv_alloc_cb(r, size, fills, raises) =>
               /\ last'.raised = "none"
               /\ (allocator = "default" /\ buffer_in_use) => uv_buf'[r] = NullBuf
               /\ raises => uv_buf'[r] = NullBuf]_vars

\* C9 witness: uv_alloc_cb has left (NULL, 0) after a custom allocator raised
\* in it or, in a run under the default allocator, after it was asked while
\* the buffer was in use.
C9_Witness ==
    /\ last.op = "uv_alloc_cb"
    /\ \/ allocator = "custom" /\ last.caught
       \/ allocator = "default" /\ last.was_in_use
    /\ \E r \in Reads : uv_buf[r] = NullBuf

\* C10: DefaultAllocator.finalize leaves buffer_in_use false for every length
\* and returns the first `length` bytes of the buffer when length > 0, and the
\* empty byte string otherwise.
C10_FinalizeReturnsLength ==
    [][\A r \in Reads :
           finalize(r) /\ allocator = "default" =>
               /\ ~buffer_in_use'
               /\ last'.length = nread[r][1]
               /\ IF last'.length > 0
                  THEN /\ Len(last'.data) = last'.length
                       /\ \A i \in 1..last'.length : last'.data[i] = c_buffer[i]
                  ELSE last'.data = <<>>]_vars

\* C10 witness: finalize has returned a proper, non-empty part of the buffer
\* that is not all zero.
C10_Witness ==
    /\ allocator = "default"
    /\ last.op = "finalize" /\ last.length > 0 /\ last.length < BufferSize
    /\ \E i \in 1..last.length : last.data[i] # 0
    /\ ~buffer_in_use

C12_HookFaultIsFatal ==
    [][/\ last'.op = "handle_exception" =>
          \A t \in Threads, l \in Loops, fault \in Faults, hook \in {"default", "custom"},
             diag_fails \in BOOLEAN :
              last'.hook = hook /\ handle_exception(t, l, fault, hook, TRUE, diag_fails) =>
                  last'.raised = "SystemExit" /\ last'.status = ExitStatus
       /\ Exiting => exit_code' = ExitStatus
       /\ exit_code # NotExited => FALSE]_vars

\* The live handles: those in the handles set of some Loop.
Live == UNION {handles[l] : l \in Loops}

\* A call of one of the methods of Pipe other than close.
PipeMethod(t, h) ==
    \/ \E code \in Statuses : Pipe_open(t, h, code)
    \/ \E code \in Statuses : Pipe_bind(t, h, code)
    \/ \E code \in Statuses : Pipe_connect(t, h, code)
    \/ pending_count(t, h)
    \/ \E tag \in PendingTags(h) : pending_type(t, h, tag)
    \/ \E tag \in PendingTags(h) : pending_accept(t, h, tag)
    \/ \E amount \in 1..MaxPending : pending_instances(t, h, amount)
    \/ \E first \in Replies(ProbeSize) : \E second \in Retry(first) :
           sockname(t, h, first, second)
    \/ \E first \in Replies(ProbeSize) : \E second \in Retry(first) :
           peername(t, h, first, second)

\* C13: once the close of a Pipe has begun, every method of it other than
\* close (open, bind, connect, pending_count, pending_type, pending_accept,
\* pending_instances, sockname, peername) fails with ClosedHandleError and
\* makes no call to the backend.
C13_ClosedPipeRefuses ==
    [][\A t \in Threads, h \in Handles :
           Closing(h) /\ PipeMethod(t, h) =>
               last'.raised = "ClosedHandleError" /\ last'.calls = <<>>]_vars

\* A connect call on a Pipe or a TCP handle to which the backend answers `code`.
Connect(t, h, code) ==
    \/ Pipe_connect(t, h, code)
    \/ \E resolves \in BOOLEAN : TCP_connect(t, h, resolves, code)

C16_AcceptRoundTrip ==
    [][\A h \in 1..nhandles :
           hkind[h] = "Pipe" =>
               IF backend_connection(h)
               THEN pending_count_value(h)' = pending_count_value(h) + 1
               ELSE IF /\ last'.op = "pending_accept" /\ last'.raised = "none"
                       /\ \E t \in Threads, tag \in PendingTags(h) : pending_accept(t, h, tag)
               THEN /\ pending_count_value(h)' = pending_count_value(h) - 1
                    /\ nhandles' = nhandles + 1
                    /\ handles'[LoopOf(h)] = handles[LoopOf(h)] \cup {nhandles'}
                    /\ hkind'[nhandles'] \in {"Pipe", "TCP"}
               ELSE pending_count_value(h)' = pending_count_value(h)]_vars

\* sockname or peername, with the two answers of the backend.
GetName(t, h, first, second) ==
    sockname(t, h, first, second) \/ peername(t, h, first, second)

\* C17: sockname and peername on a Pipe that is not closing make at most two
\* backend calls, the second if and only if the first, with the probe buffer,
\* answered ENOBUFS, and then with a buffer of the size the backend reported;
\* when the last call succeeds the result is the whole name the backend
\* wrote, and any other status of the last call is raised as UVError.
C17_NameWithOneRetry ==
    [][last'.op \in {"sockname", "peername"} =>
           \A t \in Threads, h \in Handles, first \in Replies(ProbeSize) :
               \A second \in Retry(first) :
                   ~Closing(h) /\ GetName(t, h, first, second) =>
                       /\ Len(last'.calls) \in {1, 2}
                       /\ Len(last'.calls) = 2 <=> first.code = "ENOBUFS"
                       /\ last'.sizes[1] = ProbeSize
                       /\ first.code = "ENOBUFS" => last'.sizes[2] = first.size
                       /\ second.code = "SUCCESS" =>
                              last'.raised = "none" /\ last'.value = second.name
                       /\ second.code # "SUCCESS" => last'.raised = "UVError"]_vars

C18_CloseAllHandles ==
    [][/\ last'.op = "close_all_handles" =>
          \A t \in Threads, l \in Loops, callback \in {None} \cup Callbacks :
              close_all_handles(t, l, callback) =>
                  /\ handles[l] \subseteq hclosing'
                  /\ \A h \in handles[l] :
                         on_closed'[h] = IF h \in hclosing THEN on_closed[h] ELSE callback
                  /\ handles' = handles
       /\ last'.op = "run" =>
          \A t \in Threads, l \in Loops, mode \in Modes :
              /\ ~closed[l] /\ ~stop_flag[l] /\ handles[l] \subseteq hclosing
              /\ run(t, l, mode)
              => /\ handles'[l] = {}
                 /\ last'.ret = "False"
                 /\ \A h \in handles[l] :
                        cb_calls'[h] = IF on_closed[h] # None THEN <<on_closed[h]>> ELSE <<>>
       /\ last'.op = "close" =>
          /\ \A t \in Threads, l \in Loops :
                 ~closed[l] /\ handles[l] = {} /\ close(t, l) =>
                     closed'[l] /\ last'.raised = "-"
          /\ \A t \in Threads :
                 pc[t] = "close_lock" /\ close_unregister(t) => last'.raised = "none"]_vars

\* C18 witness: close() has succeeded on a Loop all of whose handles, two at
\* least, were closed with one callback, which has been invoked once for each.
C18_Witness ==
    /\ last.op = "close" /\ last.raised = "none" /\ last.calls = <<"uv_loop_close">>
    /\ \E l \in Built : closed[l] /\ handles[l] = {}
    /\ \E h1 \in hclosed, h2 \in hclosed :
           /\ h1 # h2
           /\ cb_calls[h1] # <<>> /\ cb_calls[h1] = cb_calls[h2]

\* C19: a thread never waits for Loop._global_lock while it holds that lock,
\* and a get_default(instantiate=True) that found no default Loop and went
\* into the constructor returns, with the lock free again.
C19_GetDefaultTerminates ==
    /\ [](\A t \in Threads : ~(pc[t] = "init_lock" /\ _global_lock = t))
    /\ \A t \in Threads :
           (pc[t] = "init_lock" /\ caller[t] = "get_default")
               ~> (pc[t] = "idle" /\ _global_lock = None /\ last.ret = "loop")

\* C20: what get_loops() returns is the set of the Loops whose constructor has
\* returned and whose closed flag is false, whatever the other threads are in
\* the middle of; a close() that fails takes nothing out of the registry, and
\* a Loop is taken out only while it is in it.
C20_RegistryInvariant ==
    [][/\ \A t \in Threads :
              last'.op = "get_loops" /\ get_loops(t) =>
                  _loops = {l \in Built : ~closed[l]}
       /\ \A t \in Threads, l \in Loops :
              close(t, l) /\ last'.raised = "UVError" => _loops' = _loops
       /\ \A t \in Threads :
              close_unregister(t) => last'.raised # "KeyError"]_vars

\* C21: the current loop of a thread, as get_current(instantiate=False)
\* returns it to that thread, is never a closed Loop, whichever thread closed
\* it; and close() on a thread that never had a current loop ends without a
\* fault.
C21_CurrentNeverClosed ==
    /\ [](\A t \in Threads :
              pc[t] = "idle" /\ CurrentOf(t) # None => ~closed[CurrentOf(t)])
    /\ [][\A t \in Threads :
              _thread_locals[t] = Unset /\ close_unregister(t) =>
                  last'.raised = "none"]_vars

====
